---------------------------- MODULE Spec2Model ----------------------------
(***************************************************************************)
(* A model of CppReadline::Console (src/src/Console.cpp): several console  *)
(* instances sharing the one GNU readline engine of the process.           *)
(*                                                                         *)
(* Strings are TLA+ strings; TLC evaluates Len, SubSeq and \o on them.     *)
(***************************************************************************)
EXTENDS Integers, Sequences, FiniteSets, TLC

(***************************************************************************)
(* Bounds of the model.                                                    *)
(***************************************************************************)
\* history entries added over a run (add_history calls)
MaxHist == 3
\* registerCommand calls over a run
MaxReg == 1
\* nesting depth of executeFile frames (run inside a script)
MaxDepth == 3
\* generator calls the engine makes after a generator returned "no more matches"
MaxExtraCalls == 1

(***************************************************************************)
(* Program constants.  Console.hpp is not among the sources: the values of *)
(* ReturnCode and of COMPLETE_FILE are those the specification gives.      *)
(***************************************************************************)
Ok == 0
Error == 1
Quit == -1
COMPLETE_FILE == "%file"

\* the value the run handler returns on a usage error (line 66)
RunUsageCode == 1

\* the null pointer (a Console*, the char* of readline() at end of input)
NULL == "NULL"

Consoles == {"X", "Y"}

(***************************************************************************)
(* Strings: std::string::find / strstr, and operator>> tokenisation.       *)
(***************************************************************************)
\* a tokeniser that splits at blanks only
WhiteSpaceBlankOnly == {" "}

\* the characters operator>> skips (std::isspace) that the model's lines use
WhiteSpace == {" ", "\t"}

CharAt(s, i) == SubSeq(s, i, i)

\* a match at the start of the string only
ContainsAsPrefix(hay, needle) ==
    Len(needle) <= Len(hay) /\ SubSeq(hay, 1, Len(needle)) = needle

\* haystack.find(needle) != npos ; strstr(haystack, needle) != nullptr
Contains(hay, needle) ==
    \E i \in 0..(Len(hay) - Len(needle)) : SubSeq(hay, i + 1, i + Len(needle)) = needle

\* the length of the longest prefix of s[i..] free of whitespace
RECURSIVE WordEnd(_, _)
WordEnd(s, i) ==
    IF i > Len(s) \/ CharAt(s, i) \in WhiteSpace THEN i ELSE WordEnd(s, i + 1)

\* std::copy(istream_iterator<string>(iss), istream_iterator<string>(), ...)
RECURSIVE TokensFrom(_, _)
TokensFrom(s, i) ==
    IF i > Len(s) THEN <<>>
    ELSE IF CharAt(s, i) \in WhiteSpace THEN TokensFrom(s, i + 1)
    ELSE LET e == WordEnd(s, i)
         IN  <<SubSeq(s, i, e - 1)>> \o TokensFrom(s, e)

Tokens(s) == TokensFrom(s, 1)


(***************************************************************************)
(* The commands of the model.                                              *)
(***************************************************************************)
\* names the constructor registers (lines 56-77)
BuiltinNames == {"help", "run", "quit", "exit"}
\* names the host registers with registerCommand
RegNames == {"ls", "quit"}

\* a CommandFunction: the pair (handler, argument hints).  A handler is one
\* of the constructor's lambdas or a host function returning a fixed code.
HelpFunction == [kind |-> "help", code |-> Ok, hints |-> <<>>]
RunFunction  == [kind |-> "run", code |-> Ok, hints |-> <<COMPLETE_FILE>>]
QuitFunction == [kind |-> "quit", code |-> Quit, hints |-> <<>>]
ExitFunction == [kind |-> "exit", code |-> Quit, hints |-> <<>>]

\* the CommandFunctions the host registers: a custom non-zero code with
\* hints, a file-completed command, a command without hints
UserFunctions ==
    { [kind |-> "user", code |-> 7, hints |-> <<"-x", "-a", "-l">>],
      [kind |-> "user", code |-> Ok, hints |-> <<COMPLETE_FILE, "-a">>],
      [kind |-> "user", code |-> Ok, hints |-> <<>>] }

\* Console::Console, lines 56-77: the registry after construction
InitialCommands ==
    [n \in BuiltinNames |->
        CASE n = "help" -> HelpFunction
          [] n = "run"  -> RunFunction
          [] n = "quit" -> QuitFunction
          [] n = "exit" -> ExitFunction]

\* the iteration orders of std::unordered_map the model considers: the order
\* is unspecified, fixed for one build; one of these is chosen at start
NameOrders ==
    { <<"exit", "help", "ls", "quit", "run">>,
      <<"run", "ls", "help", "quit", "exit">> }

(***************************************************************************)
(* The script files on disk, each a sequence of lines (std::getline).      *)
(***************************************************************************)
Files ==
    [f \in {"a", "b", "c", "d", "e", "f", "r", "p", "q"} |->
        CASE f = "a" -> <<"help", "#comment", "quit", "help">>
          [] f = "b" -> <<"", "#", "run a", "help">>
          [] f = "c" -> <<" help\t", "ls -a", "run", "nope">>
          [] f = "d" -> <<"help", "  ", "#x", "run f", "exit now">>
          [] f = "e" -> <<" #x", "help">>
          [] f = "f" -> <<"help">>
          [] f = "r" -> <<"help", "run r">>
          [] f = "p" -> <<"run q">>
          [] f = "q" -> <<"#back", "run p", "quit">>]

(***************************************************************************)
(* State.                                                                  *)
(***************************************************************************)
VARIABLES
    currentConsole,  \* line 19: the console that last reserved the engine
    commands,        \* pimpl_->commands_ of each console
    history_,        \* pimpl_->history_ of each console: NoHistory or a HISTORY_STATE
    engineHistory,   \* the engine's HISTORY_STATE: the array in use and its length
    heap,            \* the history arrays the engine has allocated
    hashOrder,       \* the iteration order of the registries in this build
    reading,         \* the console blocked in readline(), or NULL
    stack,           \* the executeFile frames in progress, innermost last
    nInv,            \* executeFile calls of the operation so far
    nHist,           \* add_history calls so far
    nReg,            \* registerCommand calls so far
    cmdIt,           \* the static iterator of commandIterator (line 252)
    argIt,           \* the static iterator of argumentIterator (line 227)
    session,         \* the engine's rl_completion_matches loop in progress
    op,              \* the operation the host called last
    out,             \* what that operation did and wrote, in order
    ret,             \* what it returned
    typed,           \* per console, the non-empty lines its readLine read
    live             \* the consoles constructed and not destroyed

vars == <<currentConsole, commands, history_, engineHistory, heap, hashOrder,
          reading, stack, nInv, nHist, nReg, cmdIt, argIt, session, op, out,
          ret, typed, live>>

histVars == <<currentConsole, history_, engineHistory, heap, nHist, typed>>
compVars == <<cmdIt, argIt, session>>

\* line 20: the state of the engine at static initialisation, no array yet
emptyHistory == [entries |-> 0, length |-> 0]
\* line 30: history_ = nullptr, no HISTORY_STATE at all
NoHistory == [entries |-> -1, length |-> 0]

\* what an operation returned: a result code, or for a completion generator
\* a match, nullptr ("nomatch") or an exception ("throw")
Result(st, code, s) == [st |-> st, code |-> code, s |-> s]
NoResult == Result("none", 0, "")
Pending == Result("pending", 0, "")
Code(n) == Result("code", n, "")
Match(s) == Result("match", 0, s)
NoMatch == Result("nomatch", 0, "")
Thrown == Result("throw", 0, "")

\* the process ended in a fault
Crashed == Result("crash", 0, "")

NoOp == [kind |-> "none", con |-> NULL, s |-> "", buf |-> "", state |-> 0]
\* no rl_completion_matches loop yet: the generator in use, its arguments,
\* the calls made, their results, the calls made after the first nullptr, and
\* rl_attempted_completion_over
NoSession == [phase |-> "none", text |-> "", buf |-> "", calls |-> 0,
              got |-> <<>>, extra |-> 0, attemptedOver |-> 0]
\* a static iterator before its first assignment
NoIt == [pos |-> 0]

Init ==
    /\ currentConsole = NULL
    /\ commands = [c \in Consoles |-> InitialCommands]
    /\ history_ = [c \in Consoles |-> NoHistory]
    /\ engineHistory = emptyHistory
    /\ heap = <<>>
    /\ hashOrder \in NameOrders
    /\ reading = NULL
    /\ stack = <<>>
    /\ nInv = 0
    /\ nHist = 0
    /\ nReg = 0
    /\ cmdIt = NoIt
    /\ argIt = NoIt
    /\ session = NoSession
    /\ op = NoOp
    /\ out = <<>>
    /\ ret = NoResult
    /\ typed = [c \in Consoles |-> <<>>]
    /\ live = Consoles

(***************************************************************************)
(* The engine's history (readline's history.c, used at lines 95-110, 179). *)
(***************************************************************************)
\* the entries a HISTORY_STATE denotes: the first `length` slots of its array
Entries(h, st) == IF st.entries = 0 THEN <<>> ELSE SubSeq(h[st.entries], 1, st.length)

\* history_get_history_state(): a copy of the engine's state, sharing the array
history_get_history_state == engineHistory

\* add_history(line), line 179: the array after the call; the first call on
\* a state without array allocates one.  The array is not moved: the engine
\* grows it only beyond its initial 502 slots, which MaxHist stays below
HeapAfterAdd(line) ==
    IF engineHistory.entries = 0 THEN Append(heap, <<line>>)
    ELSE [heap EXCEPT ![engineHistory.entries] =
             SubSeq(@, 1, engineHistory.length) \o <<line>>
                 \o SubSeq(@, engineHistory.length + 2, Len(@))]

StateAfterAdd ==
    IF engineHistory.entries = 0 THEN [entries |-> Len(heap) + 1, length |-> 1]
    ELSE [engineHistory EXCEPT !.length = @ + 1]

(***************************************************************************)
(* Console::saveState (93-96) and Console::reserveConsole (98-115).        *)
(***************************************************************************)
\* saveState on console c: its snapshot becomes the engine's state
saveState(c) == [history_ EXCEPT ![c] = history_get_history_state]

\* reserveConsole without the save of lines 102-104
SnapshotsNotSaved(c) == history_

\* lines 102-104: the snapshots after reserveConsole on c
SnapshotsAfterReserve(c) ==
    IF currentConsole = c THEN history_
    ELSE IF currentConsole # NULL THEN saveState(currentConsole)
    ELSE history_

\* reserveConsole without the swap of lines 107-111
EngineNotSwapped(c) == engineHistory

\* lines 107-111: the engine's state after reserveConsole on c
EngineAfterReserve(c) ==
    IF currentConsole = c THEN engineHistory
    ELSE IF history_[c] = NoHistory THEN emptyHistory
    ELSE history_[c]

reserveConsole(c) ==
    /\ history_' = SnapshotsAfterReserve(c)
    /\ engineHistory' = EngineAfterReserve(c)
    /\ currentConsole' = c

(***************************************************************************)
(* Console::getRegisteredCommands (86-91) and Console::executeCommand      *)
(* (125-144) with the constructor's handlers (56-77).                      *)
(***************************************************************************)
\* an entry of the log `out`: a call of the dispatcher ("exec"), a handler
\* invocation ("call", with its tokens), a call of executeFile that opened its
\* file ("enter", with the number of the call), or a line written to std::cout
Ev(t, inv, n, s, a) == [t |-> t, inv |-> inv, n |-> n, s |-> s, a |-> a]

\* one registry for the whole process
getCommandsOfAll(c) ==
    SelectSeq(hashOrder, LAMBDA n : \E d \in Consoles : n \in DOMAIN commands[d])

\* the names of console c in the iteration order of its registry
getRegisteredCommands(c) ==
    SelectSeq(hashOrder, LAMBDA n : n \in DOMAIN commands[c])

\* line 64 of the run handler: input.size() < 2
RunUsage(input) == Len(input) < 2

\* a run handler that ends the session on a usage error
RunUsageQuits(input) ==
    [ev |-> <<Ev("usage", 0, 0, input[1], <<>>)>>, code |-> Quit,
     runs |-> FALSE, file |-> ""]

\* lines 65-66: the usage line is written and 1 returned
RunUsageResult(input) ==
    [ev |-> <<Ev("usage", 0, 0, input[1], <<>>)>>, code |-> RunUsageCode,
     runs |-> FALSE, file |-> ""]

\* a dispatcher that reports every non-zero result as Error
ResultCodeFlattened(code) == IF code = Ok THEN Ok ELSE Error

\* line 139: static_cast<int> of the handler's result
ResultCode(code) == code

\* a dispatcher that ignores an unknown command
NotFoundIgnored(name) == [ev |-> <<>>, code |-> Ok, runs |-> FALSE, file |-> ""]

\* lines 142-143: the diagnostic and Error
NotFound(name) ==
    [ev |-> <<Ev("notfound", 0, 0, name, <<>>)>>, code |-> Error,
     runs |-> FALSE, file |-> ""]

\* the handler of console c registered as inputs[1], applied to inputs: what
\* it writes and the code it returns; `runs` stands for the call of executeFile
\* at line 68, whose file is inputs[2] and whose result is the code
Handler(c, inputs) ==
    LET f == commands[c][inputs[1]]
        called == Ev("call", 0, 0, inputs[1], inputs)
    IN  CASE f.kind = "help" ->
               [ev |-> <<called, Ev("help", 0, 0, "", getRegisteredCommands(c))>>,
                code |-> Ok, runs |-> FALSE, file |-> ""]
          [] f.kind = "run" ->
               IF RunUsage(inputs)
               THEN [RunUsageResult(inputs) EXCEPT !.ev = <<called>> \o @]
               ELSE [ev |-> <<called>>, code |-> Ok, runs |-> TRUE, file |-> inputs[2]]
          [] f.kind \in {"quit", "exit"} ->
               [ev |-> <<called>>, code |-> Quit, runs |-> FALSE, file |-> ""]
          [] OTHER ->
               [ev |-> <<called>>, code |-> f.code, runs |-> FALSE, file |-> ""]

\* line 138: the lookup of the first token
Registered(c, name) == name \in DOMAIN commands[c]

\* executeCommand(command) on console c up to the return of the handler or,
\* for run with a file name, up to the call of executeFile
executeCommand(c, command) ==
    LET inputs == Tokens(command)
        entered == Ev("exec", 0, 0, command, <<>>)
    IN  IF Len(inputs) = 0
        THEN [ev |-> <<entered>>, code |-> Ok, runs |-> FALSE, file |-> ""]
        ELSE IF Registered(c, inputs[1])
        THEN LET h == Handler(c, inputs)
             IN  [h EXCEPT !.ev = <<entered>> \o @, !.code = ResultCode(@)]
        ELSE [NotFound(inputs[1]) EXCEPT !.ev = <<entered>> \o @]

(***************************************************************************)
(* Console::executeFile (146-166), one frame per call in progress.         *)
(***************************************************************************)
Frame(file, inv) == [file |-> file, pos |-> 1, counter |-> 0, inv |-> inv]

\* line 147-148: std::ifstream input(filename); if (!input)
Opens(filename) == filename \in DOMAIN Files

\* a runner without line 156
IsCommentNever(command) == FALSE

\* a runner that skips empty lines as it skips comments
IsCommentOrEmpty(command) == Len(command) = 0 \/ CharAt(command, 1) = "#"

\* line 156: command[0] == '#' (command[0] of an empty string is '\0')
IsComment(command) == Len(command) > 0 /\ CharAt(command, 1) = "#"

\* line 160: ++counter
NextCounter(counter) == counter + 1

\* a runner that goes on after Quit
StopsOnErrorOnly(result) == result > 0

\* line 159: if ((result = executeCommand(command))) return result
Stops(result) == result # 0

\* the frame after a line whose dispatch returned Ok (lines 159-161)
Advance(fr) == [fr EXCEPT !.pos = @ + 1, !.counter = NextCounter(@)]

\* executeFile(filename) called by the run handler or by the host, with the
\* log so far and n earlier calls: the file opens and a frame is pushed, or
\* the diagnostic of line 149 is written and Error returned, which line 159
\* of every calling frame returns in turn
EnterFile(filename, log, n) ==
    IF Opens(filename)
    THEN /\ stack' = Append(stack, Frame(filename, n + 1))
         /\ nInv' = n + 1
         /\ out' = Append(log, Ev("enter", n + 1, 0, filename, <<>>))
         /\ ret' = Pending
    ELSE /\ out' = log \o <<Ev("nofile", 0, 0, filename, <<>>)>>
         /\ nInv' = n
         /\ ret' = Code(Error)
         /\ stack' = <<>>

\* the host's (or readLine's) call executeCommand(command) on console c
Launch(c, command, log) ==
    LET o == executeCommand(c, command)
    IN  IF o.runs
        THEN EnterFile(o.file, log \o o.ev, 0)
        ELSE /\ out' = log \o o.ev
             /\ ret' = Code(o.code)
             /\ nInv' = 0
             /\ stack' = stack

\* the engine is inside rl_completion_matches: the last call returned a match
InLoop == session.phase # "none" /\ ret.st = "match"

Idle == stack = <<>> /\ reading = NULL /\ ~InLoop

Op(kind, c, s) == [kind |-> kind, con |-> c, s |-> s, buf |-> "", state |-> 0]

\* lines the host passes to executeCommand
ExecLines ==
    { "", " \t ", "help", "quit", "exit", "run", " run  zz", "run a", "run b",
      "run d", "run r", "ls -a -l", "nope x", "#x" }

\* file names the host passes to executeFile
FileArgs == DOMAIN Files \cup {"zz"}

\* a dispatcher that reserves the engine for its console
ExecuteCommandReserving(c, command) ==
    /\ Idle
    /\ reserveConsole(c)
    /\ op' = Op("executeCommand", c, command)
    /\ Launch(c, command, <<>>)
    /\ session' = NoSession
    /\ UNCHANGED <<live, heap, nHist, typed, commands, hashOrder, reading, nReg, cmdIt, argIt>>

\* the host calls executeCommand(command) on console c
ExecuteCommand(c, command) ==
    /\ Idle
    /\ op' = Op("executeCommand", c, command)
    /\ Launch(c, command, <<>>)
    /\ session' = NoSession
    /\ UNCHANGED <<live, histVars, commands, hashOrder, reading, nReg, cmdIt, argIt>>

\* the host calls executeFile(filename) on console c
ExecuteFile(c, filename) ==
    /\ Idle
    /\ op' = Op("executeFile", c, filename)
    /\ EnterFile(filename, <<>>, 0)
    /\ session' = NoSession
    /\ UNCHANGED <<live, histVars, commands, hashOrder, reading, nReg, cmdIt, argIt>>

Top == stack[Len(stack)]
TopLine == Files[Top.file][Top.pos]
AtEof == Top.pos > Len(Files[Top.file])

\* line 155 fails at end of file, line 165 returns Ok: the operation is over,
\* or the calling frame goes on after its run line (lines 159-161)
ScriptEof ==
    /\ stack # <<>>
    /\ AtEof
    /\ IF Len(stack) = 1
       THEN /\ stack' = <<>>
            /\ ret' = Code(Ok)
            /\ out' = out
       ELSE /\ stack' = [SubSeq(stack, 1, Len(stack) - 1)
                            EXCEPT ![Len(stack) - 1] = Advance(@)]
            /\ ret' = ret
            /\ out' = Append(out, Ev("nl", 0, 0, "", <<>>))
    /\ UNCHANGED <<live, histVars, compVars, commands, hashOrder, reading, nInv, nReg, op>>

\* line 156: a comment line is skipped
ScriptComment ==
    /\ stack # <<>>
    /\ ~AtEof
    /\ IsComment(TopLine)
    /\ stack' = [stack EXCEPT ![Len(stack)].pos = @ + 1]
    /\ UNCHANGED <<live, histVars, compVars, commands, hashOrder, reading, nInv, nReg,
                   op, out, ret>>

\* lines 158-161: the line is echoed with the counter and dispatched; a
\* non-zero result ends every frame, Ok advances, run enters a new frame
ScriptDispatch ==
    /\ stack # <<>>
    /\ ~AtEof
    /\ ~IsComment(TopLine)
    /\ LET o == executeCommand(op.con, TopLine)
           log == Append(out, Ev("echo", Top.inv, Top.counter, TopLine, <<>>)) \o o.ev
       IN  IF o.runs
           THEN /\ Opens(o.file) => Len(stack) < MaxDepth
                /\ EnterFile(o.file, log, nInv)
           ELSE IF Stops(o.code)
           THEN /\ stack' = <<>>
                /\ out' = log
                /\ ret' = Code(o.code)
                /\ nInv' = nInv
           ELSE /\ stack' = [stack EXCEPT ![Len(stack)] = Advance(@)]
                /\ out' = Append(log, Ev("nl", 0, 0, "", <<>>))
                /\ UNCHANGED <<ret, nInv>>
    /\ UNCHANGED <<live, histVars, compVars, commands, hashOrder, reading, nReg, op>>

\* lines 147 and 159 when the nesting has used up what the process has (each
\* call in progress holds an open std::ifstream and its stack frames;
\* MaxDepth stands for that limit): the file does not open any more and Error
\* comes back through every frame, or the stack overflows and the process
\* faults
ScriptExhausted ==
    /\ stack # <<>>
    /\ ~AtEof
    /\ ~IsComment(TopLine)
    /\ LET o == executeCommand(op.con, TopLine)
           log == Append(out, Ev("echo", Top.inv, Top.counter, TopLine, <<>>)) \o o.ev
       IN  /\ o.runs
           /\ Opens(o.file)
           /\ Len(stack) >= MaxDepth
           /\ \/ /\ out' = log \o <<Ev("nofile", 0, 0, o.file, <<>>)>>
                 /\ ret' = Code(Error)
                 /\ live' = live
              \/ /\ out' = log
                 /\ ret' = Crashed
                 /\ live' = {}
    /\ stack' = <<>>
    /\ UNCHANGED <<histVars, compVars, commands, hashOrder, reading, nInv, nReg, op>>

(***************************************************************************)
(* Console::readLine (168-186).  The call blocks in readline() at line     *)
(* 171, where the engine calls the completion generators.                  *)
(***************************************************************************)
\* what readline() returns: a line, or NULL at end of input
ReadInputs == {NULL, "", "h1", "h2", "h3", "run d"}

\* line 178: buffer[0] != '\0'
AddsHistory(buffer) == Len(buffer) > 0

\* a readLine that takes end of input for an empty line
EndOfInputOk == Ok

\* lines 172-175: readline() returned NULL
EndOfInput == Quit

\* lines 169-171: the console reserves the engine and waits for the line
ReadLineReserve(c) ==
    /\ reserveConsole(c)
    /\ reading' = c
    /\ op' = Op("readLine", c, "")
    /\ out' = <<>>
    /\ ret' = Pending
    /\ session' = NoSession
    /\ nInv' = 0
    /\ UNCHANGED <<live, heap, nHist, typed, commands, hashOrder, stack, nReg, cmdIt, argIt>>

\* readLine on console c while currentConsole is null, c itself or another
\* console that exists
ReadLineBegin(c) ==
    /\ Idle
    /\ currentConsole \in live \cup {NULL, c}
    /\ ReadLineReserve(c)

\* lines 171-185: readline() returns buffer
ReadLineEnd(buffer) ==
    /\ reading # NULL
    /\ ~InLoop
    /\ reading' = NULL
    /\ op' = [op EXCEPT !.s = buffer]
    /\ session' = NoSession
    /\ IF buffer = NULL
       THEN /\ out' = <<Ev("nl", 0, 0, "", <<>>)>>
            /\ ret' = Code(EndOfInput)
            /\ UNCHANGED <<engineHistory, heap, nHist, typed, stack, nInv>>
       ELSE /\ IF AddsHistory(buffer)
               THEN /\ nHist < MaxHist
                    /\ heap' = HeapAfterAdd(buffer)
                    /\ engineHistory' = StateAfterAdd
                    /\ nHist' = nHist + 1
                    /\ typed' = [typed EXCEPT ![reading] = Append(@, buffer)]
               ELSE UNCHANGED <<engineHistory, heap, nHist, typed>>
            /\ Launch(reading, buffer, <<>>)
    /\ UNCHANGED <<live, currentConsole, history_, commands, hashOrder, nReg, cmdIt, argIt>>

(***************************************************************************)
(* Console::registerCommand (82-84).                                       *)
(***************************************************************************)
\* a registry that keeps the first registration of a name
AssignKeepsFirst(registry, s, f) ==
    [n \in DOMAIN registry \cup {s} |-> IF n \in DOMAIN registry THEN registry[n] ELSE f]

\* commands_[s] = f
Assign(registry, s, f) ==
    [n \in DOMAIN registry \cup {s} |-> IF n = s THEN f ELSE registry[n]]

registerCommand(c, s, f) ==
    /\ Idle
    /\ nReg < MaxReg
    /\ nReg' = nReg + 1
    /\ commands' = [commands EXCEPT ![c] = Assign(@, s, f)]
    /\ op' = Op("registerCommand", c, s)
    /\ out' = <<>>
    /\ ret' = NoResult
    /\ session' = NoSession
    /\ nInv' = 0
    /\ UNCHANGED <<live, histVars, hashOrder, reading, stack, cmdIt, argIt>>

(***************************************************************************)
(* Construction and destruction: Console::Console (49-78), ~Impl (34-36)   *)
(* and Console::~Console (80).  A console of the model is the address of   *)
(* an instance: a new instance can get the address of a destroyed one.     *)
(***************************************************************************)
\* Console::Console: the built-ins are registered and history_ is nullptr;
\* currentConsole (line 19) is not touched
Create(c) ==
    /\ Idle
    /\ ret # Crashed
    /\ c \notin live
    /\ live' = live \cup {c}
    /\ commands' = [commands EXCEPT ![c] = InitialCommands]
    /\ history_' = [history_ EXCEPT ![c] = NoHistory]
    /\ typed' = [typed EXCEPT ![c] = <<>>]
    /\ op' = Op("create", c, "")
    /\ out' = <<>>
    /\ ret' = NoResult
    /\ session' = NoSession
    /\ nInv' = 0
    /\ UNCHANGED <<currentConsole, engineHistory, heap, nHist, hashOrder, reading,
                   stack, nReg, cmdIt, argIt>>

\* Console::~Console: ~Impl frees history_ and the instance is released;
\* currentConsole is not reset, and the released memory keeps its content
Destroy(c) ==
    /\ Idle
    /\ c \in live
    /\ live' = live \ {c}
    /\ op' = Op("destroy", c, "")
    /\ out' = <<>>
    /\ ret' = NoResult
    /\ session' = NoSession
    /\ nInv' = 0
    /\ UNCHANGED <<histVars, commands, hashOrder, reading, stack, nReg, cmdIt, argIt>>

\* the fault of a call through a pointer to a destroyed instance
Fault(c) ==
    /\ ret' = Crashed
    /\ live' = {}
    /\ op' = Op("readLine", c, "")
    /\ out' = <<>>
    /\ session' = NoSession
    /\ nInv' = 0
    /\ UNCHANGED <<histVars, commands, hashOrder, reading, stack, nReg, cmdIt, argIt>>

\* readLine on console c while currentConsole points to a destroyed instance:
\* line 103 calls saveState through that pointer, which frees the freed
\* history_ again and writes into released memory.  The behaviour is
\* undefined: the call goes through as on a live instance, or the process
\* faults
ReadLineBeginDangling(c) ==
    /\ Idle
    /\ currentConsole \notin live \cup {NULL, c}
    /\ \/ ReadLineReserve(c)
       \/ Fault(c)

(***************************************************************************)
(* Completion: Console::getCommandCompletions (188-198) and the generators *)
(* commandIterator (251-268) and argumentIterator (200-249), which the     *)
(* engine's rl_completion_matches calls with state 0, 1, 2, ... until one  *)
(* returns nullptr.                                                        *)
(***************************************************************************)
\* lines 260-267 from position pos of the names: the iterator after the
\* call and the result
RECURSIVE CommandScan(_, _, _)
CommandScan(names, pos, text) ==
    IF pos > Len(names) THEN [pos |-> pos, res |-> NoMatch]
    ELSE IF Contains(names[pos], text)
    THEN [pos |-> pos + 1, res |-> Match(names[pos])]
    ELSE CommandScan(names, pos + 1, text)

\* line 258: it = begin(commands) when state == 0
CommandStart(state) == IF state = 0 THEN 1 ELSE cmdIt.pos

\* commandIterator(text, state): the static iterator after the call and the
\* result
commandIterator(text, state) ==
    IF currentConsole = NULL THEN [it |-> cmdIt, res |-> NoMatch]
    ELSE LET r == CommandScan(getRegisteredCommands(currentConsole),
                              CommandStart(state), text)
         IN  [it |-> [pos |-> r.pos], res |-> r.res]

\* lines 237-248 from position pos of the hints (it + 1 != end, ++it)
RECURSIVE ArgumentScan(_, _, _, _)
ArgumentScan(params, pos, buf, argName) ==
    IF pos + 1 > Len(params) THEN [pos |-> pos, res |-> NoMatch]
    ELSE IF Contains(buf, params[pos + 1])
    THEN ArgumentScan(params, pos + 1, buf, argName)
    ELSE IF Contains(params[pos + 1], argName)
    THEN [pos |-> pos + 1, res |-> Match(params[pos + 1])]
    ELSE ArgumentScan(params, pos + 1, buf, argName)

\* a walk that offers the first hint too
ArgumentStartBefore(state) == IF state = 0 THEN 0 ELSE argIt.pos

\* lines 232-234: it = params.begin() when state == 0
ArgumentStart(state) == IF state = 0 THEN 1 ELSE argIt.pos

\* an argument phase without the sentinel check
CompletesFilesNever(params) == FALSE

\* lines 221-223: the command completes file names
CompletesFiles(params) == params[1] = COMPLETE_FILE

\* argumentIterator(text, state) with rl_line_buffer = buf: the static iterator
\* after the call, the result and rl_attempted_completion_over
argumentIterator(text, state, buf) ==
    LET results == Tokens(buf)
        untouched(res) == [it |-> argIt, res |-> res, over |-> session.attemptedOver]
    IN  IF currentConsole = NULL THEN untouched(NoMatch)
        ELSE IF Len(results) = 0 THEN untouched(Thrown)
        ELSE LET commandName == results[1]
                 argName == IF Len(results) > 1 THEN results[2] ELSE ""
             IN  IF ~Registered(currentConsole, commandName) THEN untouched(NoMatch)
                 ELSE LET params == commands[currentConsole][commandName].hints
                      IN  IF Len(params) = 0 THEN untouched(Thrown)
                          ELSE IF CompletesFiles(params) THEN untouched(NoMatch)
                          ELSE LET r == ArgumentScan(params, ArgumentStart(state),
                                                     buf, argName)
                               IN  [it |-> [pos |-> r.pos], res |-> r.res, over |-> 1]

\* what the engine passes: the word under the cursor, its offset in the line
\* and the line
CompletionInputs ==
    { [text |-> "e", start |-> 0, buf |-> "e"],
      [text |-> "", start |-> 0, buf |-> ""],
      [text |-> "ls", start |-> 0, buf |-> "ls"],
      [text |-> "", start |-> 4, buf |-> "run "],
      [text |-> "-", start |-> 3, buf |-> "ls -"],
      [text |-> "", start |-> 6, buf |-> "ls -a "],
      [text |-> "z", start |-> 4, buf |-> "foo z"],
      [text |-> "", start |-> 5, buf |-> "help "],
      [text |-> "", start |-> 1, buf |-> " "],
      [text |-> "q", start |-> 5, buf |-> "ls - q"] }

\* one call of the generator chosen at lines 191-195
Generate(phase, text, state, buf) ==
    IF phase = "command"
    THEN LET r == commandIterator(text, state)
         IN  /\ cmdIt' = r.it
             /\ argIt' = argIt
             /\ ret' = r.res
             /\ session' = [phase |-> phase, text |-> text, buf |-> buf,
                            calls |-> state + 1,
                            got |-> IF state = 0 THEN <<r.res>>
                                    ELSE Append(session.got, r.res),
                            extra |-> IF state # 0 /\ ret.st = "nomatch"
                                      THEN session.extra + 1 ELSE 0,
                            attemptedOver |-> IF state = 0 THEN 0
                                              ELSE session.attemptedOver]
    ELSE LET r == argumentIterator(text, state, buf)
         IN  /\ cmdIt' = cmdIt
             /\ argIt' = r.it
             /\ ret' = r.res
             /\ session' = [phase |-> phase, text |-> text, buf |-> buf,
                            calls |-> state + 1,
                            got |-> IF state = 0 THEN <<r.res>>
                                    ELSE Append(session.got, r.res),
                            extra |-> IF state # 0 /\ ret.st = "nomatch"
                                      THEN session.extra + 1 ELSE 0,
                            attemptedOver |-> IF state = 0 /\ r.res.st = "throw" THEN 0
                                              ELSE r.over]

\* an exception leaves the readLine in progress, if any
AfterGenerate == IF ret'.st = "throw" THEN reading' = NULL ELSE reading' = reading

\* getCommandCompletions(text, start, end): the first call, with state 0
CompletionStart(in) ==
    /\ stack = <<>>
    /\ LET phase == IF in.start = 0 THEN "command" ELSE "argument"
       IN  /\ Generate(phase, in.text, 0, in.buf)
           /\ op' = [kind |-> phase, con |-> currentConsole, s |-> in.text,
                     buf |-> in.buf, state |-> 0]
    /\ AfterGenerate
    /\ out' = <<>>
    /\ nInv' = 0
    /\ UNCHANGED <<live, histVars, commands, hashOrder, stack, nReg>>

\* the next call of the loop, and the calls after a nullptr
CompletionNext ==
    /\ stack = <<>>
    /\ session.phase # "none"
    /\ \/ ret.st = "match"
       \/ ret.st = "nomatch" /\ session.extra < MaxExtraCalls
    /\ Generate(session.phase, session.text, session.calls, session.buf)
    /\ op' = [op EXCEPT !.state = session.calls]
    /\ AfterGenerate
    /\ UNCHANGED <<live, histVars, commands, hashOrder, stack, nInv, nReg, out>>

(***************************************************************************)
(* Specifications.                                                         *)
(***************************************************************************)
\* the dispatcher and the script runner, with host registrations
Next ==
    \/ \E c \in Consoles, command \in ExecLines : ExecuteCommand(c, command)
    \/ \E c \in Consoles, filename \in FileArgs : ExecuteFile(c, filename)
    \/ \E c \in Consoles, s \in RegNames, f \in UserFunctions : registerCommand(c, s, f)
    \/ ScriptEof
    \/ ScriptComment
    \/ ScriptDispatch

Spec == Init /\ [][Next]_vars

\* line reads on all consoles
NextHistory ==
    \/ \E c \in Consoles : ReadLineBegin(c)
    \/ \E buffer \in ReadInputs : ReadLineEnd(buffer)
    \/ ScriptEof
    \/ ScriptComment
    \/ ScriptDispatch

SpecHistory == Init /\ [][NextHistory]_vars

\* completion while consoles take turns at the engine and commands are
\* registered; the line read here adds nothing to the history
CompletionReadInputs == {""}
\* and the one name registered here
CompletionRegNames == {"ls"}

NextCompletion ==
    \/ \E c \in Consoles : ReadLineBegin(c)
    \/ \E buffer \in CompletionReadInputs : ReadLineEnd(buffer)
    \/ \E c \in Consoles, s \in CompletionRegNames, f \in UserFunctions :
          registerCommand(c, s, f)
    \/ \E in \in CompletionInputs : CompletionStart(in)
    \/ CompletionNext

SpecCompletion == Init /\ [][NextCompletion]_vars

\* line reads interleaved with the host's calls of the dispatcher and of the
\* script runner, on the current console and on the other one
FrameReadInputs == {"h1", "run f"}
FrameExecLines == {"help", "run a", "nope"}
FrameFileArgs == {"b", "zz"}

NextFrame ==
    \/ \E c \in Consoles : ReadLineBegin(c)
    \/ \E buffer \in FrameReadInputs : ReadLineEnd(buffer)
    \/ \E c \in Consoles, command \in FrameExecLines : ExecuteCommand(c, command)
    \/ \E c \in Consoles, filename \in FrameFileArgs : ExecuteFile(c, filename)
    \/ ScriptEof
    \/ ScriptComment
    \/ ScriptDispatch

SpecFrame == Init /\ [][NextFrame]_vars

\* consoles are created, read lines and are destroyed
LifeReadInputs == {NULL, "h1"}

NextLifecycle ==
    \/ \E c \in Consoles : Create(c)
    \/ \E c \in Consoles : Destroy(c)
    \/ \E c \in live : ReadLineBegin(c)
    \/ \E c \in live : ReadLineBeginDangling(c)
    \/ \E buffer \in LifeReadInputs : ReadLineEnd(buffer)

SpecLifecycle == Init /\ [][NextLifecycle]_vars

\* the host runs scripts; a call of executeFile in progress takes its steps
ScriptStep == ScriptEof \/ ScriptComment \/ ScriptDispatch \/ ScriptExhausted

NextRun ==
    \/ \E c \in live, filename \in FileArgs : ExecuteFile(c, filename)
    \/ ScriptEof
    \/ ScriptComment
    \/ ScriptDispatch
    \/ ScriptExhausted

SpecRun == Init /\ [][NextRun]_vars /\ WF_vars(ScriptStep)

(***************************************************************************)
(* Properties.                                                             *)
(***************************************************************************)
\* the history an instance that is not current would get back on reserve
SavedEntries(c) ==
    Entries(heap, IF history_[c] = NoHistory THEN emptyHistory ELSE history_[c])

\* C1: at most one instance is current; while console c is current the
\* engine's live history is exactly the non-empty lines c itself has read, in
\* order, and what a console that is not current has saved is exactly its own
\* lines: no history holds a line another instance read.
C1_HistoryIsolation ==
    /\ currentConsole \in Consoles \cup {NULL}
    /\ \A c \in Consoles :
          IF currentConsole = c
          THEN Entries(heap, engineHistory) = typed[c]
          ELSE SavedEntries(c) = typed[c]

\* X read h1 and h2, Y read h3, and X holds the engine again
C1_Witness ==
    /\ currentConsole = "X"
    /\ reading = "X"
    /\ typed["X"] = <<"h1", "h2">>
    /\ typed["Y"] = <<"h3">>
    /\ history_["X"] # NoHistory
    /\ history_["Y"] # NoHistory

\* the tokens of the line the host passed to executeCommand
OpInputs == Tokens(op.s)

\* the handler invocations the log records
Calls == SelectSeq(out, LAMBDA e : e.t = "call")

\* the host's executeCommand on a line whose first token is registered
DispatchedRegistered ==
    /\ op.kind = "executeCommand"
    /\ Len(OpInputs) > 0
    /\ Registered(op.con, OpInputs[1])

\* C2: executeCommand on a line whose first token is a registered name
\* invokes that command's handler with all the tokens, the name first, once,
\* and returns the code the handler returns: Ok for help, Quit for quit and
\* exit, the usage code for run without a file, and the code of a host
\* function as it is.
C2_DispatchRegistered ==
    DispatchedRegistered =>
        LET f == commands[op.con][OpInputs[1]]
        IN  /\ Len(out) >= 2
            /\ out[1] = Ev("exec", 0, 0, op.s, <<>>)
            /\ out[2] = Ev("call", 0, 0, OpInputs[1], OpInputs)
            /\ f.kind = "user" => ret = Code(f.code) /\ Len(Calls) = 1
            /\ f.kind \in {"quit", "exit"} => ret = Code(Quit) /\ Len(Calls) = 1
            /\ f.kind = "help" => ret = Code(Ok) /\ Len(Calls) = 1
            /\ f.kind = "run" /\ Len(OpInputs) < 2 =>
                  ret = Code(RunUsageCode) /\ Len(Calls) = 1

\* a host function registered as ls returned its code 7 through the dispatcher
C2_Witness ==
    /\ DispatchedRegistered
    /\ op.s = "ls -a -l"
    /\ out[2].a = <<"ls", "-a", "-l">>
    /\ ret = Code(7)

\* the host's executeCommand on a line whose first token is not registered
\* on the instance
DispatchedUnregistered ==
    /\ op.kind = "executeCommand"
    /\ Len(OpInputs) > 0
    /\ ~Registered(op.con, OpInputs[1])

\* C3: executeCommand on a line whose first token is not a registered name
\* of the instance returns Error, writes the "not found" diagnostic with that
\* token and invokes no handler.
C3_DispatchUnregistered ==
    DispatchedUnregistered =>
        /\ ret = Code(Error)
        /\ out = <<Ev("exec", 0, 0, op.s, <<>>),
                   Ev("notfound", 0, 0, OpInputs[1], <<>>)>>
        /\ stack = <<>>

\* ls is registered on Y only and X is asked to execute it
C3_Witness ==
    /\ DispatchedUnregistered
    /\ op.con = "X"
    /\ op.s = "ls -a -l"
    /\ Registered("Y", "ls")
    /\ ret = Code(Error)

\* the line is empty or holds only blanks and tabs
BlankLine(s) == \A i \in 1..Len(s) : SubSeq(s, i, i) \in {" ", "\t"}

\* C4: executeCommand on an empty or whitespace-only line returns Ok, invokes
\* no handler and writes no diagnostic.
C4_DispatchBlank ==
    (op.kind = "executeCommand" /\ BlankLine(op.s)) =>
        /\ ret = Code(Ok)
        /\ out = <<Ev("exec", 0, 0, op.s, <<>>)>>
        /\ stack = <<>>

\* a line of blanks and a tab was dispatched
C4_Witness ==
    /\ op.kind = "executeCommand"
    /\ op.s = " \t "
    /\ ret = Code(Ok)

\* the host dispatched the built-in run with the command name alone
RunWithoutFile ==
    /\ DispatchedRegistered
    /\ commands[op.con][OpInputs[1]].kind = "run"
    /\ Len(OpInputs) < 2

\* the Script Runner was not entered and no file was tried
NoRunner ==
    /\ stack = <<>>
    /\ nInv = 0
    /\ \A i \in 1..Len(out) : out[i].t \notin {"enter", "nofile", "echo"}

\* C5 as stated: run with fewer than two tokens returns a code that is
\* neither Ok nor Error, without entering the Script Runner.
C5_Original ==
    RunWithoutFile => ret.code # Ok /\ ret.code # Error /\ NoRunner

\* C5, amended: run with fewer than two tokens writes the usage line and
\* returns the non-zero code 1, the value of Error, without entering the
\* Script Runner or trying any file.
C5_RunUsage ==
    RunWithoutFile =>
        /\ ret = Code(1)
        /\ ret.code # Ok
        /\ ret.code = Error
        /\ out = <<Ev("exec", 0, 0, op.s, <<>>),
                   Ev("call", 0, 0, OpInputs[1], OpInputs),
                   Ev("usage", 0, 0, OpInputs[1], <<>>)>>
        /\ NoRunner

\* run was dispatched alone
C5_Witness == RunWithoutFile /\ op.s = "run" /\ ret.st = "code"

(***************************************************************************)
(* The Script Runner, read off the log.                                    *)
(***************************************************************************)
\* the lines call v of executeFile echoed, in order
Echoes(v) == SelectSeq(out, LAMBDA e : e.t = "echo" /\ e.inv = v)
EchoedLines(v) == [i \in 1..Len(Echoes(v)) |-> Echoes(v)[i].s]

\* the lines of a file that do not start with '#', in file order
NonComment(file) ==
    SelectSeq(Files[file], LAMBDA l : Len(l) = 0 \/ SubSeq(l, 1, 1) # "#")

IsPrefix(a, b) == Len(a) <= Len(b) /\ a = SubSeq(b, 1, Len(a))

\* call v of executeFile is still in progress
Running(v) == \E j \in 1..Len(stack) : stack[j].inv = v

\* the dispatch of line l returns at once (no file is entered) with a
\* non-zero code
FailsAtOnce(l) ==
    LET o == executeCommand(op.con, l)
    IN  IF o.runs THEN ~Opens(o.file) ELSE o.code # Ok

CodeAtOnce(l) ==
    LET o == executeCommand(op.con, l)
    IN  IF o.runs THEN Error ELSE o.code

LastEcho == CHOOSE i \in 1..Len(out) :
                out[i].t = "echo" /\ \A j \in (i + 1)..Len(out) : out[j].t # "echo"

\* C6: every call of executeFile dispatches the non-comment lines of its file
\* in file order; a line whose dispatch returns a non-zero code is the last
\* line echoed or dispatched and its code is the result of every executeFile
\* in progress; a call that is over without such a line has dispatched all
\* its lines, and the result is then Ok.
C6_ScriptStopsAtFirstFailure ==
    /\ \A i \in 1..Len(out) :
          out[i].t = "enter" =>
              /\ IsPrefix(EchoedLines(out[i].inv), NonComment(out[i].s))
              /\ (~Running(out[i].inv) /\ (stack # <<>> \/ ret = Code(Ok)))
                    => EchoedLines(out[i].inv) = NonComment(out[i].s)
    /\ \A i \in 1..Len(out) :
          (out[i].t = "echo" /\ FailsAtOnce(out[i].s)) =>
              /\ i = LastEcho
              /\ stack = <<>>
              /\ ret = Code(CodeAtOnce(out[i].s))
              /\ Len(SelectSeq(SubSeq(out, i + 1, Len(out)),
                               LAMBDA e : e.t = "exec")) = 1
    /\ (nInv > 0 /\ stack = <<>>) =>
          /\ ret.st = "code"
          /\ ret.code # Ok =>
                /\ \E i \in 1..Len(out) : out[i].t = "echo"
                /\ FailsAtOnce(out[LastEcho].s)

\* script b ran script a, whose quit ended both: b's last line was not reached
C6_Witness ==
    /\ op.kind = "executeFile"
    /\ op.s = "b"
    /\ stack = <<>>
    /\ ret = Code(Quit)
    /\ EchoedLines(1) = <<"", "run a">>
    /\ EchoedLines(2) = <<"help", "quit">>

\* C7: a line starting with '#' is never echoed nor dispatched; the k-th
\* line a call of executeFile dispatches (k = 0, 1, ...) is echoed with the
\* number k, and the echo comes right before the line is passed to the
\* dispatcher; nothing is dispatched inside a script without its echo.
C7_EchoNumbering ==
    \A i \in 1..Len(out) :
        /\ out[i].t = "echo" =>
              /\ Len(out[i].s) = 0 \/ SubSeq(out[i].s, 1, 1) # "#"
              /\ out[i].n = Len(SelectSeq(SubSeq(out, 1, i - 1),
                                          LAMBDA e : e.t = "echo" /\ e.inv = out[i].inv))
              /\ i < Len(out)
              /\ out[i + 1] = Ev("exec", 0, 0, out[i].s, <<>>)
        /\ (out[i].t = "exec" /\ nInv > 0 /\ i > 1) =>
              /\ out[i - 1].t = "echo"
              /\ Len(out[i].s) = 0 \/ SubSeq(out[i].s, 1, 1) # "#"

\* the script help / #comment / quit / ...: quit is echoed as line 1
C7_Witness ==
    /\ op.kind = "executeFile"
    /\ op.s = "a"
    /\ ret = Code(Quit)
    /\ \E i \in 1..Len(out) : out[i] = Ev("echo", 1, 1, "quit", <<>>)
    /\ EchoedLines(1) = <<"help", "quit">>

(***************************************************************************)
(* Completion, read off the calls of one rl_completion_matches loop.       *)
(***************************************************************************)
\* the matches the generator returned so far, in order
Matched == SelectSeq(session.got, LAMBDA r : r.st = "match")
MatchedSet == {Matched[i].s : i \in 1..Len(Matched)}

\* the generator has returned "no more matches"
Exhausted == \E i \in 1..Len(session.got) : session.got[i].st = "nomatch"

\* the names of console c that contain text t somewhere
NamesWith(c, t) ==
    {n \in DOMAIN commands[c] :
        \E i \in 0..(Len(n) - Len(t)) : SubSeq(n, i + 1, i + Len(t)) = t}

\* C8: with a console current, the calls of the command-name generator with
\* state 0, 1, 2, ... return names of its registry that contain the typed
\* text, no name twice; once it has returned "no more matches" it has
\* returned every such name and every further call returns "no more matches";
\* the call with state 0 starts the enumeration anew.  For the text "e" and
\* the names help, run, quit, exit the names returned are help and exit.
C8_CommandCompletion ==
    (session.phase = "command" /\ currentConsole # NULL) =>
        /\ MatchedSet \subseteq NamesWith(currentConsole, session.text)
        /\ Cardinality(MatchedSet) = Len(Matched)
        /\ \A i, j \in 1..Len(session.got) :
              (i < j /\ session.got[i].st = "nomatch") => session.got[j].st = "nomatch"
        /\ \A i \in 1..Len(session.got) : session.got[i].st \in {"match", "nomatch"}
        /\ Exhausted => MatchedSet = NamesWith(currentConsole, session.text)
        /\ op.state = 0 => Len(session.got) = 1
        /\ Len(session.got) = op.state + 1
        /\ (Exhausted /\ session.text = "e"
              /\ DOMAIN commands[currentConsole] = {"help", "run", "quit", "exit"})
              => MatchedSet = {"help", "exit"}

\* on Y, "e" gave help and exit, then "no more matches" twice
C8_Witness ==
    /\ session.phase = "command"
    /\ currentConsole = "Y"
    /\ session.text = "e"
    /\ MatchedSet = {"help", "exit"}
    /\ Len(session.got) = 4
    /\ session.got[3].st = "nomatch"
    /\ session.got[4].st = "nomatch"

\* the names and the hints console c has registered
Vocabulary(c) ==
    DOMAIN commands[c] \cup
    UNION { {commands[c][n].hints[i] : i \in 1..Len(commands[c][n].hints)} :
            n \in DOMAIN commands[c] }

\* C9: a console blocked in readLine is the current one; what either
\* completion phase returns is a command name or a hint of the console that
\* last reserved the engine, and while no console has reserved it every call
\* of either phase returns "no more matches".
C9_CompletionOfCurrent ==
    /\ reading # NULL => reading = currentConsole
    /\ session.phase # "none" =>
          /\ currentConsole = NULL =>
                \A i \in 1..Len(session.got) : session.got[i].st = "nomatch"
          /\ currentConsole # NULL =>
                /\ MatchedSet \subseteq Vocabulary(currentConsole)
                /\ session.phase = "command" =>
                      MatchedSet \subseteq DOMAIN commands[currentConsole]

\* while X reads a line, the name ls that only Y registered is not offered
C9_Witness ==
    /\ reading = "X"
    /\ session.phase = "command"
    /\ session.text = "ls"
    /\ Registered("Y", "ls")
    /\ ~Registered("X", "ls")
    /\ session.got = <<NoMatch, NoMatch>>

\* the argument phase is asked about a registered command whose first hint
\* is COMPLETE_FILE
FileCompleted ==
    /\ session.phase = "argument"
    /\ currentConsole # NULL
    /\ Len(Tokens(session.buf)) > 0
    /\ Registered(currentConsole, Tokens(session.buf)[1])
    /\ Len(commands[currentConsole][Tokens(session.buf)[1]].hints) > 0
    /\ commands[currentConsole][Tokens(session.buf)[1]].hints[1] = COMPLETE_FILE

\* C10: for a registered command whose first hint is COMPLETE_FILE every
\* call of the argument phase returns "no more matches".
C10_FileSentinel ==
    FileCompleted =>
        \A i \in 1..Len(session.got) : session.got[i].st = "nomatch"

\* ls registered with the hints COMPLETE_FILE, -a: "ls -" is completed twice
C10_Witness ==
    /\ FileCompleted
    /\ session.buf = "ls -"
    /\ session.text = "-"
    /\ commands[currentConsole]["ls"].hints = <<COMPLETE_FILE, "-a">>
    /\ session.got = <<NoMatch, NoMatch>>

\* C11: every hint the argument phase returns contains the word under the
\* cursor, the text the engine passes, whichever position that word has on
\* the line.
C11_HintContainsText ==
    session.phase = "argument" =>
        \A i \in 1..Len(Matched) : Contains(Matched[i].s, session.text)

(***************************************************************************)
(* The registry.                                                           *)
(***************************************************************************)
\* the names a help handler listed, as the log records them
HelpListings == SelectSeq(out, LAMBDA e : e.t = "help")

\* the sequence lists every element of the set once and nothing else
ListsExactly(seq, set) ==
    /\ {seq[i] : i \in 1..Len(seq)} = set
    /\ Len(seq) = Cardinality(set)

C13_EndOfInputQuits ==
    [][ ReadLineEnd(NULL) =>
            /\ ret' = Code(Quit)
            /\ ret'.code = executeCommand(reading, "quit").code
            /\ ret'.code = executeCommand(reading, "exit").code
            /\ \A i \in 1..Len(out') : out'[i].t \notin {"exec", "call", "echo", "enter"}
            /\ stack' = <<>>
            /\ Entries(heap', engineHistory') = Entries(heap, engineHistory)
            /\ UNCHANGED <<engineHistory, heap, history_, typed, currentConsole>>
      ]_vars

\* X had read h1 when its next read met the end of input
C13_Witness ==
    /\ op.kind = "readLine"
    /\ op.con = "X"
    /\ op.s = NULL
    /\ reading = NULL
    /\ ret = Code(Quit)
    /\ typed["X"] = <<"h1">>
    /\ Entries(heap, engineHistory) = <<"h1">>

\* C14: reserveConsole on c, the first step of readLine: when c is current
\* the current console, the engine's history and every snapshot stay as they
\* are; otherwise the snapshot of the console current until then, if any,
\* becomes the engine's history as of the call, no other snapshot changes,
\* the engine's history becomes the snapshot c had, or the empty one when c
\* had none, and c is current.  No entry is written or lost either way.
C14_ReserveEffect ==
    [][ \A c \in Consoles :
          ReadLineBegin(c) =>
              /\ heap' = heap
              /\ IF currentConsole = c
                 THEN UNCHANGED <<currentConsole, engineHistory, history_>>
                 ELSE /\ currentConsole # NULL =>
                            history_'[currentConsole] = engineHistory
                      /\ \A d \in Consoles \ {currentConsole} :
                            history_'[d] = history_[d]
                      /\ engineHistory' = IF history_[c] = NoHistory
                                          THEN emptyHistory ELSE history_[c]
                      /\ Entries(heap', engineHistory') = SavedEntries(c)
                      /\ currentConsole' = c
      ]_vars

\* Y takes the engine back from X: X's line h1 is in X's snapshot and the
\* engine holds Y's line h2 again
C14_Witness ==
    /\ op.kind = "readLine"
    /\ reading = "Y"
    /\ currentConsole = "Y"
    /\ ret = Pending
    /\ typed["X"] = <<"h1">>
    /\ typed["Y"] = <<"h2">>
    /\ Entries(heap, history_["X"]) = <<"h1">>
    /\ engineHistory = history_["Y"]
    /\ Entries(heap, engineHistory) = <<"h2">>

(***************************************************************************)
(* The argument phase, read off the calls of one loop.                     *)
(***************************************************************************)
\* text t occurs somewhere in s
Occurs(t, s) == \E i \in 0..(Len(s) - Len(t)) : SubSeq(s, i + 1, i + Len(t)) = t

\* the argument phase is asked about a line whose first token the current
\* console has registered
ArgumentOfRegistered ==
    /\ session.phase = "argument"
    /\ currentConsole # NULL
    /\ Len(Tokens(session.buf)) > 0
    /\ Registered(currentConsole, Tokens(session.buf)[1])

\* the hints of that command
SessionHints == commands[currentConsole][Tokens(session.buf)[1]].hints

\* ... and they are walked: there are hints and the first is not COMPLETE_FILE
HintsWalked ==
    /\ ArgumentOfRegistered
    /\ Len(SessionHints) > 0
    /\ SessionHints[1] # COMPLETE_FILE

\* the second token of the line, or the empty text
SecondToken(buf) == IF Len(Tokens(buf)) > 1 THEN Tokens(buf)[2] ELSE ""

\* the positions of the hints the walk can offer, in list order: from the
\* second on, not occurring in the line, containing the second token
Offered(params, buf) ==
    SelectSeq([i \in 1..Len(params) |-> i],
              LAMBDA i : /\ i >= 2
                         /\ ~Occurs(params[i], buf)
                         /\ Occurs(SecondToken(buf), params[i]))

\* C15: for a registered command with hints whose first is not the sentinel,
\* the calls of the argument phase with state 0, 1, 2, ... return hints in
\* the order of the list, each position at most once, from the second
\* position on and never one that occurs in the line buffer; when the walk
\* has returned "no more matches" it has offered every hint it can offer and
\* every further call returns "no more matches".
C15_HintWalk ==
    HintsWalked =>
        LET params == SessionHints
            offered == Offered(params, session.buf)
        IN  /\ \A i \in 1..Len(session.got) : session.got[i].st \in {"match", "nomatch"}
            /\ Len(Matched) <= Len(offered)
            /\ \A k \in 1..Len(Matched) :
                  /\ Matched[k].s = params[offered[k]]
                  /\ Matched[k].s # params[1]
                  /\ ~Occurs(Matched[k].s, session.buf)
            /\ \A i, j \in 1..Len(session.got) :
                  (i < j /\ session.got[i].st = "nomatch") => session.got[j].st = "nomatch"
            /\ Exhausted => Len(Matched) = Len(offered)

\* ls has the hints -x, -a, -l: on "ls -" the walk gives -a, -l and then
\* "no more matches" twice; -x is not offered
C15_Witness ==
    /\ HintsWalked
    /\ session.buf = "ls -"
    /\ SessionHints = <<"-x", "-a", "-l">>
    /\ session.got = <<Match("-a"), Match("-l"), NoMatch, NoMatch>>

\* every line in an array of the engine
HistoryLines == UNION { {heap[a][i] : i \in 1..Len(heap[a])} : a \in 1..Len(heap) }

\* C16: no step of executeCommand or executeFile, called by the host on the
\* current console or on another one, and no step of a script, whoever
\* started it, changes the current console, the engine's history or a saved
\* snapshot; these change only in a step of readLine outside a script, and
\* the histories hold only lines readline() returned, never a script's line.
C16_DispatchLeavesHistory ==
    [][ /\ op'.kind \in {"executeCommand", "executeFile"} =>
              UNCHANGED <<currentConsole, engineHistory, history_, heap>>
        /\ stack # <<>> =>
              UNCHANGED <<currentConsole, engineHistory, history_, heap>>
        /\ <<currentConsole, history_>>' # <<currentConsole, history_>> =>
              \E c \in Consoles : ReadLineBegin(c)
        /\ heap' # heap =>
              \E buffer \in FrameReadInputs : ReadLineEnd(buffer) /\ AddsHistory(buffer)
        /\ engineHistory' # engineHistory => op'.kind = "readLine" /\ stack = <<>>
        /\ HistoryLines' \subseteq FrameReadInputs
      ]_vars

\* Y is current with the line h1; the host ran script b on X, which ran a and
\* quit: the engine still holds h1 alone
C16_Witness ==
    /\ op.kind = "executeFile"
    /\ op.con = "X"
    /\ op.s = "b"
    /\ ret = Code(Quit)
    /\ stack = <<>>
    /\ currentConsole = "Y"
    /\ typed["Y"] = <<"h1">>
    /\ Entries(heap, engineHistory) = <<"h1">>
    /\ history_["X"] = NoHistory

\* C17: when the next line of a script is empty, the step of executeFile
\* echoes it with the current number, passes it to the dispatcher, which
\* returns Ok without a handler or a diagnostic, ends the echo line, and goes
\* on to the next line with the number after: the line is neither skipped
\* as a comment nor an error that ends the script.
C17_EmptyScriptLine ==
    [][ (stack # <<>> /\ ~AtEof /\ TopLine = "") =>
            /\ executeCommand(op.con, "").code = Ok
            /\ out' = out \o <<Ev("echo", Top.inv, Top.counter, "", <<>>),
                               Ev("exec", 0, 0, "", <<>>),
                               Ev("nl", 0, 0, "", <<>>)>>
            /\ stack' = [stack EXCEPT ![Len(stack)] =
                            [@ EXCEPT !.pos = @ + 1, !.counter = @ + 1]]
            /\ ret' = ret
            /\ ret = Pending
      ]_vars

\* script b starts with an empty line: it was echoed as line 0 and the
\* runner is at the second line with the number 1
C17_Witness ==
    /\ op.kind = "executeFile"
    /\ op.s = "b"
    /\ Len(stack) = 1
    /\ Top.pos = 2
    /\ Top.counter = 1
    /\ ret = Pending
    /\ out = <<Ev("enter", 1, 0, "b", <<>>), Ev("echo", 1, 0, "", <<>>),
               Ev("exec", 0, 0, "", <<>>), Ev("nl", 0, 0, "", <<>>)>>

(***************************************************************************)
(* The lifetime of the consoles.                                           *)
(***************************************************************************)
\* C18: whatever consoles are created, read lines and are destroyed,
\* currentConsole is null or a console that exists, and no readLine calls
\* saveState on, or otherwise goes through, a destroyed console.
C18_CurrentIsLive ==
    [][ /\ currentConsole' \in live' \cup {NULL}
        /\ \A c \in Consoles : ~ReadLineBeginDangling(c)
        /\ ret' # Crashed
      ]_vars

\* C19: every call of the argument phase returns a hint or "no more
\* matches" and none raises an error, whatever the line buffer, a line of
\* blanks included, and whatever the hints of the command, none included.
C19_ArgumentPhaseTotal ==
    session.phase = "argument" =>
        /\ ret # Thrown
        /\ \A i \in 1..Len(session.got) : session.got[i].st \in {"match", "nomatch"}

(***************************************************************************)
(* Termination of the script runner.                                       *)
(***************************************************************************)
\* a call of executeFile is in progress inside a call that waits at the same
\* line of the same file: the registries do not change during a run, so the
\* inner call repeats what the outer one did and the nesting has no end
NestedInItself ==
    \E i, j \in 1..Len(stack) :
        i < j /\ stack[i].file = stack[j].file /\ stack[i].pos = stack[j].pos

\* C20: every call of executeFile eventually returns a result code, also
\* for a script that runs itself or a script that runs it back: no call is
\* ever nested in itself, and a call in progress leads to a result code.
C20_ExecuteFileReturns ==
    /\ [](~NestedInItself)
    /\ (op.kind = "executeFile") ~> (ret.st = "code")

=============================================================================
